---- MODULE Spec2Model ----
(***************************************************************************)
(* Fetcher<P> of crates/freeze/src/types/sources.rs: a Provider wrapped by *)
(* an optional tokio Semaphore, an optional governor RateLimiter and an    *)
(* optional tokio_retry strategy.  Every async method is modelled from one *)
(* suspension point to the next; each call of a Fetcher method is one      *)
(* element of Calls.                                                        *)
(***************************************************************************)
EXTENDS Integers, Sequences, FiniteSets, TLC

\* ------------------------------------------------------------------ bounds
NumCalls == 2          \* concurrent callers of the Fetcher
MaxRetries == 2        \* longest Take<ExponentialBackoff> drawn
MaxRate == 2           \* largest quota (cells per interval) drawn

MaxPermits == NumCalls - 1
\* Option<T>: None, or Some(x) holding x
None == <<>>
Some(x) == <<x>>
Unwrap(o) == o[1]

VARIABLES
    semaphore,       \* Fetcher.semaphore: None or [permits, closed, waiters]
    rate_limiter,    \* Fetcher.rate_limiter: None or [quota, state]
    retry_strategy,  \* Fetcher.retry_strategy: None or a sequence of durations
    limit,           \* the permit count the semaphore was constructed with
    admissions,      \* ages, in ticks, of the admissions of the last interval
    pc,              \* per call: the suspension point it is at
    op,              \* per call: the Fetcher method called
    permit,          \* per call: what permit_request gave, while it is held
    strategy,        \* per call: the clone of retry_strategy being consumed
    invocations,     \* per call: how often the action was run
    outcomes,        \* per call: what each invocation returned
    result,          \* per call: what the method returned
    tokens,          \* per call: how often until_ready returned to it
    sleeps           \* per call: the durations it slept between attempts

vars == <<semaphore, rate_limiter, retry_strategy, limit, admissions,
          pc, op, permit, strategy, invocations, outcomes, result,
          tokens, sleeps>>

\* -------------------------------------------------------- retry strategy
RECURSIVE Pow(_, _)
Pow(b, n) == IF n = 0 THEN 1 ELSE b * Pow(b, n - 1)

\* ExponentialBackoff::from_millis(base).factor(factor).take(n)
ExponentialBackoff(base, factor, n) ==
    [i \in 1..n |-> Pow(base, i) * factor]

\* the Take<ExponentialBackoff> values a Fetcher is built with
RetryStrategies == {ExponentialBackoff(2, 5, n) : n \in 1..MaxRetries}

\* ---------------------------------------------------------- rate limiter
\* Quota with max_burst cells, one cell replenished per tick
Quota(r) == [max_burst |-> r, replenish_1_per |-> 1]

\* the interval over which the quota admits max_burst cells
Interval(q) == q.max_burst * q.replenish_1_per

\* RateLimiter::direct(quota): no cell measured yet.  The state is the
\* theoretical arrival time of the next cell, kept as its distance from the
\* clock's reading t0 (a time already passed is distance 0: test_and_update
\* reads it only through max(tat, t0) and tat - tau <= t0)
NewRateLimiter(q) == [quota |-> q, state |-> None]

Max(a, b) == IF a >= b THEN a ELSE b

\* Gcra: t the weight of one cell, tau the burst tolerance
GcraT(l) == l.quota.replenish_1_per
GcraTau(l) == l.quota.replenish_1_per * l.quota.max_burst

\* the theoretical arrival time tested (the starting state when unset)
GcraTat(l) == IF l.state = None THEN GcraT(l) ELSE Unwrap(l.state)

\* test_and_update: the cell conforms, t0 >= tat - tau
GcraAllows(l) == GcraTat(l) - GcraTau(l) <= 0

\* mutant: a conforming cell leaves the state where it was
GcraUpdate_Free(l) ==
    [l EXCEPT !.state = Some(Max(GcraTat(l), 0))]

\* test_and_update: the state after a conforming cell, max(tat, t0) + t
GcraUpdate(l) ==
    [l EXCEPT !.state = Some(Max(GcraTat(l), 0) + GcraT(l))]

\* the clock advances by one tick: every stored time is one tick nearer
GcraElapse(l) ==
    IF l.state = None THEN l
    ELSE [l EXCEPT !.state = Some(Max(Unwrap(@) - 1, 0))]

\* the admissions still inside the interval after one more tick
Aged(adm, q) ==
    LET older == [i \in 1..Len(adm) |-> adm[i] + 1]
    IN  SelectSeq(older, LAMBDA a : a < Interval(q))

\* ------------------------------------------------------------- semaphore
\* Semaphore::new(n)
NewSemaphore(n) == [permits |-> n, closed |-> FALSE, waiters |-> <<>>]

\* mutant: acquire() hands out a permit without looking at the count
TryAcquire_Uncounted(sem) ==
    IF sem.closed THEN "Err" ELSE "Ok"

\* Semaphore::acquire, first poll: Err when closed, a permit when one is
\* available, otherwise the caller queues behind the earlier waiters
TryAcquire(sem) ==
    IF sem.closed THEN "Err"
    ELSE IF sem.permits > 0 THEN "Ok"
    ELSE "Wait"

\* mutant: the waiter at the head of the queue is never woken
Granted_LostWakeup(sem) == {}

\* the waiter a returned permit is assigned to (the queue is FIFO)
Granted(sem) == IF sem.waiters # <<>> THEN {Head(sem.waiters)} ELSE {}

\* mutant: a permit dropped while nobody waits is forgotten
AddPermit_Leak(sem) ==
    IF sem.waiters # <<>>
    THEN [sem EXCEPT !.waiters = Tail(@)]
    ELSE sem

\* SemaphorePermit::drop: the permit goes to the first waiter, or back to
\* the count when nobody waits
AddPermit(sem) ==
    IF sem.waiters # <<>>
    THEN [sem EXCEPT !.waiters = Tail(@)]
    ELSE [sem EXCEPT !.permits = @ + 1]

\* Acquire::drop of a queued waiter: it leaves the queue
RemoveWaiter(sem, c) ==
    [sem EXCEPT !.waiters = SelectSeq(@, LAMBDA x : x # c)]

\* ------------------------------------------------------------- Fetcher
GatedOps == {"get_block"}
Ops == GatedOps \cup {"get_block_number"}

\* Fetcher::map_err: a ProviderError becomes CollectError::ProviderError
map_err(res) ==
    IF res.ok THEN [ok |-> TRUE, v |-> res.v, err |-> "-"]
    ELSE [ok |-> FALSE, v |-> res.v, err |-> "CollectError::ProviderError"]

\* what the provider answers to invocation i of a call: a value or a
\* ProviderError, each tagged with the invocation that produced it
Response(succeeds, i) == [ok |-> succeeds, v |-> i]

\* mutant: a Fetcher without a strategy retries once all the same
CallStrategy_Default ==
    IF retry_strategy = None THEN Some(ExponentialBackoff(2, 5, 1))
    ELSE retry_strategy

\* mutant: the calls iterate over one shared strategy, so a call starts where
\* a call already running has got to
CallStrategy_Shared ==
    IF \E d \in DOMAIN strategy : strategy[d] # None
    THEN strategy[CHOOSE d \in DOMAIN strategy : strategy[d] # None]
    ELSE retry_strategy

\* execute_request: the strategy a call iterates over (a clone, or None)
CallStrategy == retry_strategy

\* mutant: the last duration of the strategy is never used
RetryAgain_OffByOne(strat) == strat # None /\ Len(Unwrap(strat)) > 1

\* Retry: the strategy still yields a duration to sleep before a new attempt
RetryAgain(strat) == strat # None /\ Len(Unwrap(strat)) > 0

\* mutant: a value is retried like an error
RetryDecision_Always(res, strat) == strat # None /\ Len(Unwrap(strat)) > 0

\* Retry: an error is retried while the strategy lasts; a value, or the error
\* met when the strategy is exhausted, is returned
RetryDecision(res, strat) == ~res.ok /\ RetryAgain(strat)

\* mutant: dropping the future of a call does not drop what it holds
DropPermit_Kept(c) == UNCHANGED <<semaphore, permit>>

\* the value bound to _permit is dropped when the method returns or its
\* future is dropped
DropPermit(c) ==
    IF permit[c] = "Ok"
    THEN /\ semaphore' = Some(AddPermit(Unwrap(semaphore)))
         /\ permit' = [x \in DOMAIN permit |->
                IF x = c THEN "None"
                ELSE IF x \in Granted(Unwrap(semaphore)) THEN "Ok"
                ELSE permit[x]]
    ELSE IF permit[c] = "Wait"
    THEN /\ semaphore' = Some(RemoveWaiter(Unwrap(semaphore), c))
         /\ permit' = [permit EXCEPT ![c] = "None"]
    ELSE UNCHANGED <<semaphore, permit>>

\* execute_request up to the first await of the action: the strategy is
\* cloned and the action run for the first time
execute_request(c) ==
    /\ strategy' = [strategy EXCEPT ![c] = CallStrategy]
    /\ invocations' = [invocations EXCEPT ![c] = @ + 1]
    /\ pc' = [pc EXCEPT ![c] = "provider"]

\* until_ready returns nothing to hold: a step that admits no call leaves the
\* limiter, and the cells it has counted, as they are
KeepTokens == UNCHANGED <<rate_limiter, admissions, tokens>>

\* until_ready returns to call c: the limiter has counted one more cell
Admit(c) ==
    /\ rate_limiter' = Some(GcraUpdate(Unwrap(rate_limiter)))
    /\ admissions' = Append(admissions, 0)
    /\ tokens' = [tokens EXCEPT ![c] = @ + 1]

\* mutant: a call that ends or fails hands its cell back to the limiter
TokenSpent_Refunded(c) ==
    /\ rate_limiter' =
          IF tokens[c] > 0 /\ rate_limiter # None
          THEN LET l == Unwrap(rate_limiter) IN
               Some([l EXCEPT !.state = Some(Max(GcraTat(l) - GcraT(l), 0))])
          ELSE rate_limiter
    /\ UNCHANGED <<admissions, tokens>>

\* the call's cell is not something it holds: an invocation answered, or the
\* future dropped, leaves the limiter as it is
TokenSpent(c) == KeepTokens

\* mutant: a Fetcher without a rate limiter makes the call wait for one
EnterLimiter_Waits(c) ==
    IF rate_limiter # None /\ GcraAllows(Unwrap(rate_limiter))
    THEN Admit(c) /\ execute_request(c)
    ELSE /\ pc' = [pc EXCEPT ![c] = "until_ready"]
         /\ KeepTokens
         /\ UNCHANGED <<strategy, invocations>>

\* permit_request from line 140 on, then execute_request: a call that finds
\* the limiter ready goes on to its first invocation, another one waits
EnterLimiter(c) ==
    IF rate_limiter = None
    THEN execute_request(c) /\ KeepTokens
    ELSE IF GcraAllows(Unwrap(rate_limiter))
    THEN Admit(c) /\ execute_request(c)
    ELSE /\ pc' = [pc EXCEPT ![c] = "until_ready"]
         /\ KeepTokens
         /\ UNCHANGED <<strategy, invocations>>

Config == <<retry_strategy, limit>>

\* a gated method is called: permit_request is polled for the first time
GatedCall(c, o) ==
    /\ pc[c] = "idle"
    /\ op' = [op EXCEPT ![c] = o]
    /\ IF semaphore = None
       THEN /\ UNCHANGED <<semaphore, permit>>
            /\ EnterLimiter(c)
       ELSE LET sem == Unwrap(semaphore)
                got == TryAcquire(sem) IN
            /\ permit' = [permit EXCEPT ![c] = got]
            /\ IF got = "Wait"
               THEN /\ semaphore' = Some([sem EXCEPT !.waiters = Append(@, c)])
                    /\ pc' = [pc EXCEPT ![c] = "acquire"]
                    /\ KeepTokens
                    /\ UNCHANGED <<strategy, invocations>>
               ELSE /\ semaphore' = IF got = "Ok"
                                    THEN Some([sem EXCEPT !.permits = @ - 1])
                                    ELSE semaphore
                    /\ EnterLimiter(c)
    /\ UNCHANGED <<Config, sleeps, outcomes, result>>

\* mutant: get_block_number goes through permit_request like the others
get_block_number_Gated(c) == GatedCall(c, "get_block_number")

\* get_block_number is called: no permit_request, execute_request at once
get_block_number(c) ==
    /\ pc[c] = "idle"
    /\ op' = [op EXCEPT ![c] = "get_block_number"]
    /\ execute_request(c)
    /\ KeepTokens
    /\ UNCHANGED <<Config, sleeps, semaphore, permit, outcomes, result>>

\* a queued acquire() has completed (with a permit, or with AcquireError
\* after close) and the call is polled again
AcquireReady(c) ==
    /\ pc[c] = "acquire"
    /\ permit[c] \in {"Ok", "Err"}
    /\ EnterLimiter(c)
    /\ UNCHANGED <<Config, sleeps, semaphore, permit, op, outcomes, result>>

\* until_ready() returns once the limiter admits the call
UntilReady(c) ==
    /\ pc[c] = "until_ready"
    /\ rate_limiter # None
    /\ GcraAllows(Unwrap(rate_limiter))
    /\ Admit(c)
    /\ execute_request(c)
    /\ UNCHANGED <<Config, sleeps, semaphore, permit, op, outcomes, result>>

\* mutant: the strategy is read from its far end
NextDuration_Last(strat) == Unwrap(strat)[Len(Unwrap(strat))]

\* Retry: the duration slept before the next attempt, strategy.next()
NextDuration(strat) == Head(Unwrap(strat))

\* _permit stays bound while execute_request retries: a call going to sleep
\* keeps what permit_request gave it
HoldPermit(c) == UNCHANGED <<semaphore, permit>>

\* mutant: every attempt waits for the rate limiter and takes a cell
RetryUngated_Limited(c) ==
    IF rate_limiter = None THEN KeepTokens
    ELSE GcraAllows(Unwrap(rate_limiter)) /\ Admit(c)

\* Retry runs the action again without going back to permit_request
RetryUngated(c) == KeepTokens

\* the method returns res: _permit is dropped
Return(c, res) ==
    /\ pc' = [pc EXCEPT ![c] = "done"]
    /\ op' = [op EXCEPT ![c] = "None"]
    /\ result' = [result EXCEPT ![c] = Some(res)]
    /\ DropPermit(c)

\* the provider answers the invocation in flight
Respond(c, succeeds) ==
    /\ pc[c] = "provider"
    /\ LET res == Response(succeeds, invocations[c]) IN
       /\ outcomes' = [outcomes EXCEPT ![c] = Append(@, res)]
       /\ IF RetryDecision(res, strategy[c])
          THEN /\ strategy' = [strategy EXCEPT ![c] = Some(Tail(Unwrap(@)))]
               /\ sleeps' = [sleeps EXCEPT ![c] = Append(@, NextDuration(strategy[c]))]
               /\ pc' = [pc EXCEPT ![c] = "sleep"]
               /\ HoldPermit(c)
               /\ UNCHANGED <<result, op>>
          ELSE /\ Return(c, map_err(res))
               /\ strategy' = [strategy EXCEPT ![c] = None]
               /\ UNCHANGED sleeps
    /\ TokenSpent(c)
    /\ UNCHANGED <<Config, invocations>>

\* the backoff sleep is over: the action is run again
Wake(c) ==
    /\ pc[c] = "sleep"
    /\ invocations' = [invocations EXCEPT ![c] = @ + 1]
    /\ pc' = [pc EXCEPT ![c] = "provider"]
    /\ RetryUngated(c)
    /\ UNCHANGED <<Config, sleeps, semaphore, op, permit, strategy, outcomes, result>>

\* the awaits of a method: semaphore.acquire(), limiter.until_ready(), the
\* provider's call, and the sleep between two attempts
Suspended == {"acquire", "until_ready", "provider", "sleep"}

\* where a call was when its future was dropped
CancelledAt ==
    [acquire |-> "cancelled_acquire", until_ready |-> "cancelled_until_ready",
     provider |-> "cancelled_provider", sleep |-> "cancelled_sleep"]
Cancelled == {CancelledAt[p] : p \in Suspended}

\* the caller drops the method's future at a suspension point
Cancel(c) ==
    /\ pc[c] \in Suspended
    /\ pc' = [pc EXCEPT ![c] = CancelledAt[pc[c]]]
    /\ DropPermit(c)
    /\ strategy' = [strategy EXCEPT ![c] = None]
    /\ op' = [op EXCEPT ![c] = "None"]
    /\ TokenSpent(c)
    /\ UNCHANGED <<Config, sleeps, invocations, outcomes, result>>

\* Semaphore::close on the public field: every queued acquire() fails
Close ==
    /\ semaphore # None
    /\ ~Unwrap(semaphore).closed
    /\ semaphore' = Some([Unwrap(semaphore) EXCEPT !.closed = TRUE, !.waiters = <<>>])
    /\ permit' = [x \in DOMAIN permit |-> IF permit[x] = "Wait" THEN "Err" ELSE permit[x]]
    /\ KeepTokens
    /\ UNCHANGED <<Config, sleeps, pc, op, strategy, invocations, outcomes, result>>

\* the caller that got its answer, or gave up, makes its next call
NextCall(c) ==
    /\ pc[c] \in {"done"} \cup Cancelled
    /\ pc' = [pc EXCEPT ![c] = "idle"]
    /\ permit' = [permit EXCEPT ![c] = "None"]
    /\ strategy' = [strategy EXCEPT ![c] = None]
    /\ invocations' = [invocations EXCEPT ![c] = 0]
    /\ outcomes' = [outcomes EXCEPT ![c] = <<>>]
    /\ result' = [result EXCEPT ![c] = None]
    /\ tokens' = [tokens EXCEPT ![c] = 0]
    /\ sleeps' = [sleeps EXCEPT ![c] = <<>>]
    /\ UNCHANGED <<Config, semaphore, rate_limiter, admissions, op>>

\* the clock read by the limiter advances by one tick
Tick ==
    /\ rate_limiter # None
    /\ rate_limiter' = Some(GcraElapse(Unwrap(rate_limiter)))
    /\ admissions' = Aged(admissions, Unwrap(rate_limiter).quota)
    /\ UNCHANGED <<Config, sleeps, semaphore, pc, op, permit, strategy, invocations,
                   outcomes, result, tokens>>

\* ------------------------------------------------------ specifications
InitCalls(calls) ==
    /\ admissions = <<>>
    /\ pc = [c \in calls |-> "idle"]
    /\ op = [c \in calls |-> "None"]
    /\ permit = [c \in calls |-> "None"]
    /\ strategy = [c \in calls |-> None]
    /\ invocations = [c \in calls |-> 0]
    /\ outcomes = [c \in calls |-> <<>>]
    /\ result = [c \in calls |-> None]
    /\ tokens = [c \in calls |-> 0]
    /\ sleeps = [c \in calls |-> <<>>]

\* Fetcher { provider, semaphore, rate_limiter, retry_strategy }
InitFetcher(limits, rates, retries) ==
    /\ limit \in limits
    /\ semaphore = IF limit = None THEN None ELSE Some(NewSemaphore(Unwrap(limit)))
    /\ rate_limiter \in rates
    /\ retry_strategy \in retries

Limits == {None} \cup {Some(n) : n \in 1..MaxPermits}
Rates == {Some(NewRateLimiter(Quota(r))) : r \in 1..MaxRate}
Retries == {None} \cup {Some(s) : s \in RetryStrategies}

Calls == DOMAIN pc

\* the steps of the callers of the gated methods
NextGated ==
    \/ \E c \in Calls, o \in GatedOps : GatedCall(c, o)
    \/ \E c \in Calls : AcquireReady(c)
    \/ \E c \in Calls, succeeds \in BOOLEAN : Respond(c, succeeds)
    \/ \E c \in Calls : Wake(c)
    \/ \E c \in Calls : Cancel(c)
    \/ \E c \in Calls : NextCall(c)

Init ==
    /\ InitFetcher(Limits, {None}, Retries)
    /\ InitCalls(1..NumCalls)

Next ==
    \/ NextGated
    \/ \E c \in Calls : get_block_number(c)
    \/ Close

\* a Fetcher without a rate limiter: every method, and close()
Spec == Init /\ [][Next]_vars

RateInit ==
    /\ InitFetcher(Limits, Rates, {None, Some(ExponentialBackoff(2, 5, 1))})
    /\ InitCalls(1..NumCalls)

RateNext ==
    \/ NextGated
    \/ \E c \in Calls : UntilReady(c)
    \/ Tick

\* a Fetcher with a rate limiter: the gated methods
RateSpec == RateInit /\ [][RateNext]_vars

ExemptInit ==
    /\ InitFetcher({Some(n) : n \in 1..MaxPermits}, Rates, {None})
    /\ InitCalls(1..NumCalls)

ExemptNext ==
    \/ \E c \in Calls, o \in GatedOps : GatedCall(c, o)
    \/ \E c \in Calls : get_block_number(c)
    \/ \E c \in Calls : AcquireReady(c)
    \/ \E c \in Calls : UntilReady(c)
    \/ \E c \in Calls, succeeds \in BOOLEAN : Respond(c, succeeds)
    \/ \E c \in Calls : NextCall(c)
    \/ Tick
    \/ Close

\* a Fetcher with both limiters and no retry: every method, and close()
ExemptSpec == ExemptInit /\ [][ExemptNext]_vars

\* more callers than permits, no rate limiter, no retry, and a provider
\* that answers every call with a value
FairCalls == NumCalls + 3

FairInit ==
    /\ InitFetcher({Some(n) : n \in 1..NumCalls}, {None}, {None})
    /\ InitCalls(1..FairCalls)

\* one caller's steps: it calls get_block, is polled, gets its answer
FairStep(c) ==
    \/ \E o \in GatedOps : GatedCall(c, o)
    \/ AcquireReady(c)
    \/ Respond(c, TRUE)

FairNext == \E c \in Calls : FairStep(c)

\* the runtime polls every task that can make progress, and the provider
\* answers every request
FairSpec ==
    /\ FairInit
    /\ [][FairNext]_vars
    /\ \A c \in 1..FairCalls : WF_vars(FairStep(c))

\* ------------------------------------------------------------- claims
Held == {c \in Calls : permit[c] = "Ok"}
InFlight == {c \in Calls : pc[c] = "provider"}
Quiet == \A c \in Calls : pc[c] \in {"idle", "done"} \cup Cancelled
AllFailed(c) == \A i \in 1..Len(outcomes[c]) : ~outcomes[c][i].ok
WrappedError(i) == Some([ok |-> FALSE, v |-> i, err |-> "CollectError::ProviderError"])
Value(i) == Some([ok |-> TRUE, v |-> i, err |-> "-"])

\* C1: with a semaphore of N permits, at most N calls hold a permit at once.
C1_PermitsBounded ==
    limit # None => Cardinality(Held) <= Unwrap(limit)

C1_Witness ==
    /\ limit # None
    /\ Cardinality(Held) = Unwrap(limit)
    /\ \E c \in Calls : pc[c] = "acquire" /\ permit[c] = "Wait"

\* C2 as stated: with a strategy of K durations, a call whose action always
\* fails has run it exactly K times and returns the K-th error.
C2_Original ==
    \A c \in Calls :
        (retry_strategy # None /\ pc[c] = "done" /\ AllFailed(c)) =>
            LET K == Len(Unwrap(retry_strategy)) IN
            /\ invocations[c] = K
            /\ result[c] = WrappedError(K)

\* C2 amended: with a strategy of K durations, a call whose action always
\* fails has run it exactly K + 1 times (once, and once more after each of
\* the K durations) and returns the error of the last run, wrapped.
C2_Exhausted ==
    \A c \in Calls :
        (retry_strategy # None /\ pc[c] = "done" /\ AllFailed(c)) =>
            LET K == Len(Unwrap(retry_strategy)) IN
            /\ invocations[c] = K + 1
            /\ Len(outcomes[c]) = K + 1
            /\ result[c] = WrappedError(K + 1)

C2_Witness ==
    \E c \in Calls :
        /\ retry_strategy # None
        /\ Len(Unwrap(retry_strategy)) = MaxRetries
        /\ pc[c] = "done"
        /\ AllFailed(c)
        /\ invocations[c] = MaxRetries + 1

\* C3: with a retry strategy, the first invocation that succeeds is the
\* last one: the call has returned that invocation's value, every earlier
\* invocation failed, and the action was run exactly that many times.
C3_FirstSuccessReturns ==
    \A c \in Calls :
        retry_strategy # None =>
            \A j \in 1..Len(outcomes[c]) :
                outcomes[c][j].ok =>
                    /\ j = Len(outcomes[c])
                    /\ \A i \in 1..(j - 1) : ~outcomes[c][i].ok
                    /\ invocations[c] = j
                    /\ pc[c] = "done"
                    /\ result[c] = Value(j)

C3_Witness ==
    \E c \in Calls :
        /\ retry_strategy # None
        /\ Len(Unwrap(retry_strategy)) = 2
        /\ pc[c] = "done"
        /\ Len(outcomes[c]) = 2
        /\ ~outcomes[c][1].ok
        /\ outcomes[c][2].ok
        /\ result[c] = Value(2)

\* C4: a call whose acquire() failed because the semaphore is closed never
\* runs its action, and returns an error.
C4_ClosedNeverRuns ==
    \A c \in Calls :
        permit[c] = "Err" =>
            /\ invocations[c] = 0
            /\ pc[c] \notin {"provider", "sleep"}
            /\ (pc[c] = "done" => ~Unwrap(result[c]).ok)

\* C5 as stated: over any interval in which the quota replenishes R cells,
\* at most R calls are admitted.
C5_Original ==
    rate_limiter # None =>
        Len(admissions) <= Unwrap(rate_limiter).quota.max_burst

\* C5 amended: over any such interval at most R + B calls are admitted, B
\* being the burst the quota allows (B = R for a quota of R per interval).
C5_WindowBound ==
    rate_limiter # None =>
        LET q == Unwrap(rate_limiter).quota IN
        Len(admissions) <= q.max_burst + Interval(q) \div q.replenish_1_per

C5_Witness ==
    /\ rate_limiter # None
    /\ Unwrap(rate_limiter).quota.max_burst = 2
    /\ Len(admissions) = 3

\* C6: with a semaphore of N permits at most N requests are in flight, and
\* each request in flight belongs to a call that holds a permit.
C6_InFlightBounded ==
    limit # None =>
        /\ Cardinality(InFlight) <= Unwrap(limit)
        /\ \A c \in InFlight : permit[c] = "Ok"

\* C7: without a retry strategy a call runs its action once, never sleeps,
\* and returns what that one invocation gave: the value, or the error wrapped.
C7_NoRetryOnce ==
    retry_strategy = None =>
        \A c \in Calls :
            /\ pc[c] # "sleep"
            /\ invocations[c] <= 1
            /\ pc[c] = "done" =>
                /\ invocations[c] = 1
                /\ Len(outcomes[c]) = 1
                /\ result[c] = IF outcomes[c][1].ok THEN Value(1)
                               ELSE WrappedError(1)

C7_Witness ==
    \E c \in Calls :
        /\ retry_strategy = None
        /\ pc[c] = "done"
        /\ result[c] = WrappedError(1)

\* C8: whenever no call is in progress, every permit is back: the semaphore
\* has its N permits available.
C8_PermitsReturned ==
    (limit # None /\ Quiet) => Unwrap(semaphore).permits = Unwrap(limit)

C8_Witness ==
    /\ limit # None
    /\ retry_strategy # None
    /\ Quiet
    /\ \E c \in Calls :
        /\ pc[c] = "done"
        /\ AllFailed(c)
        /\ invocations[c] > 1
    /\ \E c \in Calls : pc[c] = "done" /\ Unwrap(result[c]).ok

\* what one step may do to a call whose future has been dropped
CancelStep(c) ==
    /\ (pc[c] \in Suspended /\ pc'[c] \in Cancelled) =>
        /\ permit'[c] \notin {"Ok", "Wait"}
        /\ invocations'[c] = invocations[c]
        /\ semaphore' # None =>
            /\ \A i \in 1..Len(Unwrap(semaphore').waiters) :
                  Unwrap(semaphore').waiters[i] # c
            /\ Unwrap(semaphore').permits
                  + Cardinality({x \in Calls : permit'[x] = "Ok"}) = Unwrap(limit)
    /\ (pc[c] = "until_ready" /\ pc'[c] \in Cancelled) => invocations'[c] = 0
    /\ (pc[c] \in Cancelled /\ pc'[c] # "idle") =>
        /\ pc'[c] = pc[c]
        /\ invocations'[c] = invocations[c]
        /\ permit'[c] = permit[c]

\* C9: a call cancelled at a suspension point gives back the permit it holds
\* (or leaves the queue) and never runs its action again; cancelled in
\* until_ready, it has not run its action at all.
C9_CancelReleases == [][\A c \in Calls : CancelStep(c)]_vars

C9_Witness ==
    \E c \in Calls :
        /\ pc[c] = "cancelled_until_ready"
        /\ limit # None
        /\ invocations[c] = 0
        /\ Unwrap(semaphore).permits = Unwrap(limit)

AllDone == \A c \in Calls : pc[c] = "done" /\ result[c] = Value(1)

\* C10: with N >= 1 permits, no rate limiter, no retry and a provider that
\* always answers, every one of M > N concurrent gated calls completes
\* with its value.
C10_AllComplete == <>AllDone

C10_Witness ==
    /\ AllDone
    /\ Cardinality(Calls) > Unwrap(limit)


\* C11: get_block_number is outside the gate: the step that calls it takes it
\* straight to its network invocation and leaves the semaphore (permits and
\* queue), every call's permit, the rate limiter and the cells it has counted
\* unchanged; the call never holds or awaits a permit and never has a cell;
\* and an idle caller can make that step in every state, whatever the
\* permits and the limiter are
GbnStep(c) ==
    (pc[c] = "idle" /\ op'[c] = "get_block_number") =>
        /\ pc'[c] = "provider" /\ invocations'[c] = 1
        /\ UNCHANGED <<semaphore, permit, rate_limiter, admissions, tokens>>
GbnUngated(c) ==
    /\ op[c] = "get_block_number" =>
            /\ pc[c] = "provider"
            /\ permit[c] = "None"
            /\ tokens[c] = 0
    /\ pc[c] = "idle" => ENABLED get_block_number(c)
C11_BlockNumberExempt ==
    /\ [](\A c \in Calls : GbnUngated(c))
    /\ [][\A c \in Calls : GbnStep(c)]_vars
\* get_block_number is in flight while every permit is held, a gated call
\* queues for one, and the limiter admits nobody
C11_Witness ==
    \E c, d, e \in Calls :
        /\ op[c] = "get_block_number" /\ pc[c] = "provider"
        /\ Unwrap(semaphore).permits = 0
        /\ Cardinality(Held) = Unwrap(limit)
        /\ pc[d] \in {"acquire", "until_ready"}
        /\ ~GcraAllows(Unwrap(rate_limiter))

\* C12: with both limiters configured the gate has one order, permit first:
\* a call still queued for a permit has taken no cell from the rate limiter,
\* a call waiting for the rate limiter holds one of the N permits and has no
\* cell yet, and a call that has its cell and is running holds its permit
C12_PermitBeforeToken ==
    (semaphore # None /\ rate_limiter # None) =>
        \A c \in Calls :
            /\ pc[c] = "acquire" => tokens[c] = 0
            /\ pc[c] = "until_ready" => permit[c] = "Ok" /\ tokens[c] = 0
            /\ (op[c] \in GatedOps /\ tokens[c] > 0 /\ pc[c] = "provider")
                    => permit[c] = "Ok"

RECURSIVE Sum(_)
Sum(seq) == IF seq = <<>> THEN 0 ELSE Head(seq) + Sum(Tail(seq))

\* C13: under a retry policy one sleep separates each two consecutive
\* invocations and the i-th sleep lasts the i-th duration of the policy:
\* nothing is slept before the first invocation, a call in its j-th
\* invocation or returned after it has slept the first j - 1 durations (so
\* none follows the last failure), and a call that returns a value from
\* invocation j has waited their sum
C13_BackoffBetweenAttempts ==
    retry_strategy # None =>
        \A c \in Calls :
            LET durations == Unwrap(retry_strategy) IN
            /\ Len(sleeps[c]) <= Len(durations)
            /\ sleeps[c] = SubSeq(durations, 1, Len(sleeps[c]))
            /\ invocations[c] = 0 => sleeps[c] = <<>>
            /\ pc[c] \in {"provider", "done"} => Len(sleeps[c]) = invocations[c] - 1
            /\ pc[c] = "sleep" => Len(sleeps[c]) = invocations[c]
            /\ (pc[c] = "done" /\ Unwrap(result[c]).ok) =>
                    Sum(sleeps[c]) = Sum(SubSeq(durations, 1, invocations[c] - 1))
\* two failures, then a value: the call slept 10 ms, then 20 ms
C13_Witness ==
    \E c \in Calls :
        /\ pc[c] = "done" /\ Unwrap(result[c]).ok
        /\ invocations[c] = 3
        /\ sleeps[c] = <<10, 20>>
        /\ Sum(sleeps[c]) = 30

\* C14: every call iterates over its own copy of the retry policy: no step
\* changes the policy the Fetcher stores, the step that starts a call's first
\* invocation gives it the whole stored policy, and what a running call has
\* left is the stored policy less the sleeps of that call alone, however many
\* durations other calls have used
OwnCopy(c) ==
    (retry_strategy # None /\ pc[c] \in {"provider", "sleep"}) =>
        sleeps[c] \o Unwrap(strategy[c]) = Unwrap(retry_strategy)
FreshCopy(c) ==
    (invocations[c] = 0 /\ invocations'[c] = 1) => strategy'[c] = retry_strategy
C14_FreshPolicy ==
    /\ [](\A c \in Calls : OwnCopy(c))
    /\ [][retry_strategy' = retry_strategy /\ \A c \in Calls : FreshCopy(c)]_vars
\* a call starts with the whole policy while another has used all of it
C14_Witness ==
    \E c, d \in Calls :
        /\ retry_strategy # None
        /\ pc[c] \in {"provider", "sleep"}
        /\ sleeps[c] = Unwrap(retry_strategy)
        /\ pc[d] = "provider" /\ invocations[d] = 1
        /\ strategy[d] = retry_strategy

\* C15: a cell taken from the rate limiter is never given back: a step in
\* which a call gets its answer (value, error to retry, last error), starts
\* its next attempt, is dropped, or is followed by the caller's next call
\* leaves the limiter and the cells it has counted unchanged; the limiter's
\* state moves only when a call is admitted (one more cell) or time passes
Outcome(c) ==
    /\ pc[c] \in {"provider", "sleep", "done"} \cup Cancelled
    /\ pc'[c] # pc[c]
LimiterMoves ==
    \/ \E c \in Calls :
          /\ tokens'[c] = tokens[c] + 1
          /\ Len(admissions') = Len(admissions) + 1
          /\ GcraTat(Unwrap(rate_limiter')) >= GcraTat(Unwrap(rate_limiter))
    \/ /\ pc' = pc /\ tokens' = tokens
       /\ rate_limiter' = Some(GcraElapse(Unwrap(rate_limiter)))
TokenKept ==
    /\ \A c \in Calls : Outcome(c) => UNCHANGED <<rate_limiter, admissions>>
    /\ rate_limiter' # rate_limiter => LimiterMoves
C15_TokensNeverReturned == [][TokenKept]_vars
\* a call has returned, another was dropped, each after taking a cell, and
\* the limiter still refuses the next call
C15_Witness ==
    \E c, d \in Calls :
        /\ pc[c] = "done" /\ tokens[c] = 1
        /\ pc[d] \in {"cancelled_provider", "cancelled_sleep"} /\ tokens[d] = 1
        /\ ~GcraAllows(Unwrap(rate_limiter))

\* C16: a Fetcher with neither a semaphore nor a rate limiter never suspends
\* a call in the gate: no call is ever found waiting for a permit or for the
\* limiter, none holds or awaits a permit, and a call that has been made is
\* at (or past) its network invocation whatever the other calls are doing
Ungated ==
    \A c \in Calls :
        /\ pc[c] \notin {"acquire", "until_ready", "cancelled_acquire",
                          "cancelled_until_ready"}
        /\ permit[c] = "None"
        /\ op[c] # "None" => pc[c] \in {"provider", "sleep"}
C16_NoLimitsNoWait == (semaphore = None /\ rate_limiter = None) => Ungated
\* every caller has a gated call in flight at the same time
C16_Witness ==
    /\ semaphore = None /\ rate_limiter = None
    /\ \A c \in Calls : op[c] \in GatedOps /\ pc[c] = "provider"

\* C18: with a concurrency limit, a gated call holds a permit in every state
\* from its first invocation until it returns: while an invocation is in
\* flight and while it sleeps between two attempts, so that the calls that
\* are running or sleeping are never more than N
C18_PermitHeldThroughout ==
    limit # None =>
        /\ \A c \in Calls :
              (op[c] \in GatedOps /\ pc[c] \in {"provider", "sleep"}) =>
                  permit[c] = "Ok"
        /\ Cardinality({c \in Calls : op[c] \in GatedOps
                                      /\ pc[c] \in {"provider", "sleep"}})
              <= Unwrap(limit)

\* C19: with a rate limiter, a gated call takes exactly one cell, with its
\* first invocation, however often the retry loop invokes the action: a call
\* that has invoked the action has one cell, no call has more, and a call
\* sleeping between attempts can start its next attempt whatever the limiter
\* says
C19_OneTokenPerCall ==
    rate_limiter # None =>
        \A c \in Calls :
            /\ tokens[c] <= 1
            /\ invocations[c] >= 1 => tokens[c] = 1
            /\ invocations[c] = 0 => tokens[c] = 0
            /\ pc[c] = "sleep" => ENABLED Wake(c)
\* one admission in the window, two invocations dispatched by the admitted
\* call, the second while the limiter refuses every new call
C19_Witness ==
    \E c \in Calls :
        /\ pc[c] = "provider" /\ invocations[c] = 2 /\ tokens[c] = 1
        /\ Len(admissions) = 1
        /\ ~GcraAllows(Unwrap(rate_limiter))
====
